---------------------------- MODULE Spec2Model ----------------------------
(***************************************************************************)
(* A model of the ELF64 decoder: the endian codec (bytes.rs), the file     *)
(* header parser (elf/ehdr.rs), the program header / segment parser        *)
(* (elf/phdr.rs), the section header and string table parsers              *)
(* (elf/shdr.rs) and the orchestrator ElfParser::parse (parser.rs).        *)
(*                                                                         *)
(* The decoder is a pure function of one byte buffer.  A behaviour of the  *)
(* model is one call of one public entry point: Init draws the entry point *)
(* and its arguments, every action is one step of the called function.     *)
(* A Rust panic (unwrap on Err/None, a failed assert_eq!, a slice index    *)
(* out of range, panic!(), unimplemented!(), unreachable!()) is the tag    *)
(* "Panic" with the place that raised it; a returned Err is the tag "Err". *)
(*                                                                         *)
(* Byte sequences are 1-indexed here and 0-indexed in the source:          *)
(* Slice(s, a, b) is the Rust slice s[a..b].                               *)
(***************************************************************************)
EXTENDS Integers, Sequences, FiniteSets, TLC

\* ------------------------------------------------------------------------
\* Generic helpers
\* ------------------------------------------------------------------------

\* s[a..b] of the source: the bytes at 0-based positions a .. b-1.
Slice(s, a, b) == SubSeq(s, a + 1, b)

Min(a, b) == IF a <= b THEN a ELSE b

RECURSIVE Reverse(_)
Reverse(s) == IF s = <<>> THEN <<>> ELSE Append(Reverse(Tail(s)), Head(s))

\* The outcome of a call: Ok(v), a panic raised at `why`, or a returned Err.
Ok(v) == [tag |-> "Ok", why |-> "", val |-> v]
Panic(why, dflt) == [tag |-> "Panic", why |-> why, val |-> dflt]
Err(e, dflt) == [tag |-> "Err", why |-> e, val |-> dflt]

\* ------------------------------------------------------------------------
\* bytes.rs: the endian codec
\* ------------------------------------------------------------------------

\* uN::from_le_bytes: the least significant byte is at the lowest address.
RECURSIVE from_le_bytes(_)
from_le_bytes(bytes) ==
    IF bytes = <<>> THEN 0
    ELSE Head(bytes) + 256 * from_le_bytes(Tail(bytes))

\* uN::from_be_bytes: the most significant byte is at the lowest address.
RECURSIVE from_be_acc(_, _)
from_be_acc(acc, bytes) ==
    IF bytes = <<>> THEN acc
    ELSE from_be_acc(acc * 256 + Head(bytes), Tail(bytes))

from_be_bytes(bytes) == from_be_acc(0, bytes)

\* convert: `msb` is the outcome of `endianness == ElfHData::ElfData2Msb`.
convert(bytes, msb) ==
    IF msb THEN from_be_bytes(bytes) ELSE from_le_bytes(bytes)

\* The same codec at the full width of the target type.  A value of N bytes
\* is kept as N/2 limbs of 16 bits, the least significant limb first, so that
\* a 64-bit value needs no integer wider than 24 bits.

\* x * 256 + c on limbs; a carry out of the last limb is dropped.
RECURSIVE MulAdd(_, _)
MulAdd(x, c) ==
    IF x = <<>> THEN <<>>
    ELSE LET t == Head(x) * 256 + c IN
         <<t % 65536>> \o MulAdd(Tail(x), t \div 65536)

RECURSIVE from_be_acc_wide(_, _)
from_be_acc_wide(acc, bytes) ==
    IF bytes = <<>> THEN acc
    ELSE from_be_acc_wide(MulAdd(acc, Head(bytes)), Tail(bytes))

\* uN::from_be_bytes
from_be_bytes_wide(bytes) ==
    from_be_acc_wide([i \in 1..(Len(bytes) \div 2) |-> 0], bytes)

\* uN::from_le_bytes: the bytes are taken in the opposite order.
from_le_bytes_wide(bytes) == from_be_bytes_wide(Reverse(bytes))

\* A codec that reads every pattern as little-endian.
convert_wide_LittleOnly(bytes, msb) == from_le_bytes_wide(bytes)

\* convert, at full width
convert_wide(bytes, msb) ==
    IF msb THEN from_be_bytes_wide(bytes) ELSE from_le_bytes_wide(bytes)

\* ------------------------------------------------------------------------
\* elf/ehdr.rs: identification block and file header
\* ------------------------------------------------------------------------

IDENT_SZ == 16

ElfClass64 == 2
ElfData2Lsb == 1
ElfData2Msb == 2
ElfEvCurr == 1
Executable == 2

ELFMAG == <<127, 69, 76, 70>>

NoIdent ==
    [mag |-> <<0, 0, 0, 0>>, class |-> 0, data |-> 0, version |-> 0,
     os_abi |-> 0, abi_version |-> 0]

NoHdr ==
    [ident |-> NoIdent, e_type |-> 0, machine |-> 0, version |-> 0,
     entry |-> 0, ph_off |-> 0, sh_off |-> 0, flags |-> 0, eh_size |-> 0,
     ph_ent_size |-> 0, ph_num |-> 0, sh_ent_size |-> 0, sh_num |-> 0,
     sh_str_ndx |-> 0]

\* Elf64Hdr::parse_ident: data.get(..IDENT_SZ).ok_or(InvalidLength)?, then
\* the 16 bytes are transmuted into Elf64Ident: each field is the raw byte.
parse_ident(data) ==
    IF Len(data) < IDENT_SZ THEN Err("InvalidLength", NoIdent)
    ELSE Ok([mag |-> Slice(data, 0, 4), class |-> data[5], data |-> data[6],
             version |-> data[7], os_abi |-> data[8],
             abi_version |-> data[9]])

\* The transmute gives class, data and version the type of a fieldless enum.
\* A byte that is no discriminant of the enum is an invalid value: comparing
\* it is undefined behaviour, and the build may answer either way.
ValidClass == {0, 1, 2}
ValidData == {1, 2}
ValidVersion == {0, 1}

EnumEq(byte, valid, variant) ==
    IF byte \in valid THEN {byte = variant} ELSE BOOLEAN

\* impl TryFrom<u16> for ElfHType
ElfHType_try_from(value) ==
    IF value = 2 THEN Ok(Executable) ELSE Err("()", 0)

\* Elf64Hdr::parse.  The fields are evaluated in the order they are written.
Elf64Hdr_parse(data, msb) ==
    LET id == parse_ident(data) IN
    IF id.tag # "Ok" THEN Panic("unwrap parse_ident: InvalidLength", NoHdr)
    ELSE IF Len(data) < 18 THEN Panic("slice index e_type", NoHdr)
    ELSE IF ElfHType_try_from(convert(Slice(data, 16, 18), msb)).tag # "Ok"
         THEN Panic("unwrap e_type", NoHdr)
    ELSE IF Len(data) < 64 THEN Panic("slice index header field", NoHdr)
    ELSE Ok([ident |-> id.val,
             e_type |-> ElfHType_try_from(convert(Slice(data, 16, 18), msb)).val,
             machine |-> convert(Slice(data, 18, 20), msb),
             version |-> convert(Slice(data, 20, 24), msb),
             entry |-> convert(Slice(data, 24, 32), msb),
             ph_off |-> convert(Slice(data, 32, 40), msb),
             sh_off |-> convert(Slice(data, 40, 48), msb),
             flags |-> convert(Slice(data, 48, 52), msb),
             eh_size |-> convert(Slice(data, 52, 54), msb),
             ph_ent_size |-> convert(Slice(data, 54, 56), msb),
             ph_num |-> convert(Slice(data, 56, 58), msb),
             sh_ent_size |-> convert(Slice(data, 58, 60), msb),
             sh_num |-> convert(Slice(data, 60, 62), msb),
             sh_str_ndx |-> convert(Slice(data, 62, 64), msb)])

\* Elf64Hdr::validate: four assert_eq! in this order.  eqClass, eqData and
\* eqVersion are the outcomes of the three enum comparisons.
Elf64Hdr_validate(h, eqClass, eqData, eqVersion) ==
    IF h.ident.mag # ELFMAG THEN Panic("assert mag", h)
    ELSE IF ~eqClass THEN Panic("assert class", h)
    ELSE IF ~eqData THEN Panic("assert data", h)
    ELSE IF ~eqVersion THEN Panic("assert version", h)
    ELSE Ok(h)


\* ------------------------------------------------------------------------
\* elf/phdr.rs: program headers and segment payloads
\* ------------------------------------------------------------------------

DT_ENCODING == 32
DT_HIOS == 1879044096
DT_LOPROC == 1879048192

PtNull == 0
PtLoad == 1
PtDynamic == 2
PtLoos == 8
PtHios == 9
PtLoProc == 10
PtHiProc == 11

\* The remainder of Rust's `%` on signed integers: it truncates toward zero,
\* so it has the sign of the dividend (b > 0 here).
RustRem(a, b) == IF a >= 0 THEN a % b ELSE 0 - ((0 - a) % b)

\* i64 from 8 bytes: two's complement.  A pattern with the sign bit set is
\* -(~pattern) - 1, which equals pattern - 2^64.
convert_i64(bytes, msb) ==
    LET sign == IF msb THEN bytes[1] ELSE bytes[Len(bytes)] IN
    IF sign >= 128
    THEN 0 - convert([i \in 1..Len(bytes) |-> 255 - bytes[i]], msb) - 1
    ELSE convert(bytes, msb)

DPtr(v) == [kind |-> "DPtr", v |-> v]
DVal(v) == [kind |-> "DVal", v |-> v]

\* A parity test that compares the remainder with 1: the remainder of a
\* negative odd tag is -1.
d_un_RemIsOne(d_tag, raw) ==
    IF RustRem(d_tag, 2) # 1 THEN DPtr(raw) ELSE DVal(raw)

\* ELF64Dyn::d_un
d_un(d_tag, raw) ==
    LET is_ptr == RustRem(d_tag, 2) = 0 IN
    IF is_ptr THEN DPtr(raw)
    ELSE IF d_tag < DT_ENCODING \/ (d_tag > DT_HIOS /\ d_tag < DT_LOPROC)
         THEN DVal(raw)
         ELSE DVal(raw)

\* impl TryFrom<u32> for PType.  A Rust range a..b excludes b.
PType_try_from(v) ==
    IF v < 8 THEN Ok(v)
    ELSE IF v >= 1610612736 /\ v < 1879048191 THEN Ok(PtLoos)
    ELSE IF v >= 1879048191 /\ v < 1879048192 THEN Ok(PtHios)
    ELSE IF v >= 1879048192 /\ v < 2147483647 THEN Ok(PtLoProc)
    ELSE IF v >= 2147483647 THEN Ok(PtHiProc)
    ELSE Panic("unreachable", 0)

Ignorable == [kind |-> "Ignorable", bytes |-> <<>>, dyn |-> <<>>]
PtLoadData(bytes) == [kind |-> "PtLoadData", bytes |-> bytes, dyn |-> <<>>]
PtDynamicData(dyn) == [kind |-> "PtDynamicData", bytes |-> <<>>, dyn |-> dyn]

\* A closure that fills a short chunk up with zero bytes.
DynEntry_Padded(s, msb) ==
    LET p == s \o [i \in 1..(16 - Len(s)) |-> 0]
        d_tag == convert_i64(Slice(p, 0, 8), msb)
        raw == convert(Slice(p, 8, 16), msb)
    IN Ok([d_tag |-> d_tag, d_un |-> d_un(d_tag, raw)])

\* The closure of section.chunks(16).map(..) on one chunk s.
DynEntry(s, msb) ==
    IF Len(s) < 8 THEN Panic("slice index d_tag", <<>>)
    ELSE IF Len(s) < 16 THEN Panic("slice index d_un", <<>>)
    ELSE LET d_tag == convert_i64(Slice(s, 0, 8), msb)
             raw == convert(Slice(s, 8, 16), msb)
         IN Ok([d_tag |-> d_tag, d_un |-> d_un(d_tag, raw)])

\* section.chunks(16).map(..).collect(): the chunks from the k-th on, in
\* order; the last chunk may be short.  The first panic ends the collect.
RECURSIVE DynCollect(_, _, _)
DynCollect(section, k, msb) ==
    IF k * 16 >= Len(section) THEN Ok(<<>>)
    ELSE LET s == Slice(section, k * 16, Min((k + 1) * 16, Len(section)))
             e == DynEntry(s, msb)
         IN IF e.tag # "Ok" THEN Panic(e.why, <<>>)
            ELSE LET rest == DynCollect(section, k + 1, msb) IN
                 IF rest.tag # "Ok" THEN rest
                 ELSE Ok(<<e.val>> \o rest.val)

\* A build of the image that allocates only the file-size bytes.
LoadImage_Unpadded(section, filesz, memsz) == section

\* bytes[0..filesz].copy_from_slice(section) on vec![0u8; memsz]
LoadImage(section, filesz, memsz) ==
    [i \in 1..memsz |-> IF i <= filesz THEN section[i] ELSE 0]

\* A PtLoad arm that clamps the copy to the memory size instead of failing.
parse_load_Clamped(filesz, memsz, offset, data) ==
    LET n == Min(filesz, memsz) IN
    IF offset + filesz > Len(data)
    THEN Panic("slice index segment", Ignorable)
    ELSE Ok(PtLoadData(LoadImage(Slice(data, offset, offset + n), n, memsz)))

\* PTypeData::parse_section, the PType::PtLoad arm
parse_load(filesz, memsz, offset, data) ==
    IF filesz > memsz THEN Panic("panic!() filesz > memsz", Ignorable)
    ELSE IF offset + filesz > Len(data)
         THEN Panic("slice index segment", Ignorable)
    ELSE Ok(PtLoadData(LoadImage(Slice(data, offset, offset + filesz),
                                 filesz, memsz)))

\* PTypeData::parse_section
parse_section(p_type, filesz, memsz, offset, data, msb) ==
    IF p_type = PtLoad THEN parse_load(filesz, memsz, offset, data)
    ELSE IF p_type = PtDynamic THEN
        IF offset + filesz > Len(data)
        THEN Panic("slice index segment", Ignorable)
        ELSE LET dyn == DynCollect(Slice(data, offset, offset + filesz), 0, msb)
             IN IF dyn.tag # "Ok" THEN Panic(dyn.why, Ignorable)
                ELSE Ok(PtDynamicData(dyn.val))
    ELSE Ok(Ignorable)

NoPHdr ==
    [p_type |-> 0, flags |-> 0, offset |-> 0, vaddr |-> 0, paddr |-> 0,
     filesz |-> 0, memsz |-> 0, align |-> 0, section |-> Ignorable]

\* The closure of Elf64PHdr::parse on one chunk sh of the table.
PHdrEntry(sh, data, msb) ==
    IF Len(sh) < 4 THEN Panic("slice index p_type", NoPHdr)
    ELSE LET p_type == PType_try_from(convert(Slice(sh, 0, 4), msb)) IN
    IF p_type.tag # "Ok" THEN Panic(p_type.why, NoPHdr)
    ELSE IF Len(sh) < 48 THEN Panic("slice index filesz memsz", NoPHdr)
    ELSE LET filesz == convert(Slice(sh, 32, 40), msb)
             memsz == convert(Slice(sh, 40, 48), msb)
             offset == convert(Slice(sh, 8, 16), msb)
             section == parse_section(p_type.val, filesz, memsz, offset,
                                      data, msb)
         IN
    IF section.tag # "Ok" THEN Panic(section.why, NoPHdr)
    ELSE IF Len(sh) < 56 THEN Panic("slice index align", NoPHdr)
    ELSE Ok([p_type |-> p_type.val,
             flags |-> convert(Slice(sh, 4, 8), msb),
             offset |-> offset,
             vaddr |-> convert(Slice(sh, 16, 24), msb),
             paddr |-> convert(Slice(sh, 24, 32), msb),
             filesz |-> filesz,
             memsz |-> memsz,
             align |-> convert(Slice(sh, 48, 56), msb),
             section |-> section.val])

\* The k-th chunk of rest.chunks(siz): siz bytes, fewer for the last one.
Chunk(rest, siz, k) == Slice(rest, k * siz, Min((k + 1) * siz, Len(rest)))

\* The number of chunks rest.chunks(siz) yields.
NumChunks(rest, siz) == (Len(rest) + siz - 1) \div siz

\* data[off..].chunks(siz).take(nth).map(..).collect(): entries k .. n-1.
RECURSIVE PHdrCollect(_, _, _, _, _, _)
PHdrCollect(rest, siz, k, n, data, msb) ==
    IF k >= n THEN Ok(<<>>)
    ELSE LET e == PHdrEntry(Chunk(rest, siz, k), data, msb) IN
         IF e.tag # "Ok" THEN Panic(e.why, <<>>)
         ELSE LET more == PHdrCollect(rest, siz, k + 1, n, data, msb) IN
              IF more.tag # "Ok" THEN more
              ELSE Ok(<<e.val>> \o more.val)

\* Elf64PHdr::parse
Elf64PHdr_parse(data, hdrs, msb) ==
    LET nth == hdrs.ph_num
        off == hdrs.ph_off
        siz == hdrs.ph_ent_size
    IN IF off > Len(data) THEN Panic("slice index ph_off", <<>>)
       ELSE IF siz = 0 THEN Panic("chunk size must be non-zero", <<>>)
       ELSE LET rest == Slice(data, off, Len(data)) IN
            PHdrCollect(rest, siz, 0, Min(nth, NumChunks(rest, siz)),
                        data, msb)

\* ------------------------------------------------------------------------
\* elf/shdr.rs: section headers and string tables
\* ------------------------------------------------------------------------

SHN_LORESERVE == 65280
SHT_STRTAB == 3

NoSHdr ==
    [name |-> 0, s_type |-> 0, flags |-> 0, addr |-> 0, offset |-> 0,
     size |-> 0, link |-> 0, info |-> 0, addr_align |-> 0, ent_size |-> 0]

NoStringTable == [offset |-> 0, size |-> 0, table |-> <<>>, sh_type |-> ""]

\* Elf64SHdr::has_table
has_table(sh) == sh.ent_size # 0

\* Elf64SHdr::has_align_constraints
has_align_constraints(sh) == sh.addr_align # 0 /\ sh.addr_align # 1

\* Elf64SHdr::has_table of main.rs
main_has_table(sh) == sh.ent_size = 0

\* Elf64SHdr::has_align_constraints of main.rs
main_has_align_constraints(sh) == sh.addr_align = 0 \/ sh.addr_align = 1

\* assert_eq!(*table.first().unwrap(), 0u8), on a non-empty table
FirstIsNul(table) == table[1] = 0

\* A build without the check of the last byte.
LastIsNul_Unchecked(table) == TRUE

\* assert_eq!(*table.last().unwrap(), 0u8), on a non-empty table
LastIsNul(table) == table[Len(table)] = 0

\* Elf64SHdr::parse_str_table
parse_str_table(data, section_header, is_header_table) ==
    LET off == section_header.offset
        siz == section_header.size
    IN IF section_header.s_type # SHT_STRTAB
       THEN Panic("assert s_type", NoStringTable)
       ELSE IF off + siz > Len(data)
       THEN Panic("slice index string table", NoStringTable)
       ELSE LET table == Slice(data, off, off + siz) IN
            IF Len(table) # siz THEN Panic("assert len", NoStringTable)
            ELSE IF Len(table) = 0
                 THEN Panic("unwrap first: None", NoStringTable)
            ELSE IF ~FirstIsNul(table)
                 THEN Panic("assert first", NoStringTable)
            ELSE IF ~LastIsNul(table)
                 THEN Panic("assert last", NoStringTable)
            ELSE Ok([offset |-> section_header.offset,
                     size |-> section_header.size,
                     table |-> table,
                     sh_type |-> IF is_header_table THEN "ShStrTab"
                                 ELSE "StrTab"])

\* The closure of Elf64SHdr::parse on one chunk sh of the table: the first
\* field sliced is name, the widest slice is sh[56..=63].
SHdrEntry(sh, msb) ==
    IF Len(sh) < 4 THEN Panic("slice index name", NoSHdr)
    ELSE IF Len(sh) < 64 THEN Panic("slice index section field", NoSHdr)
    ELSE Ok([name |-> convert(Slice(sh, 0, 4), msb),
             s_type |-> convert(Slice(sh, 4, 8), msb),
             flags |-> convert(Slice(sh, 8, 16), msb),
             addr |-> convert(Slice(sh, 16, 24), msb),
             offset |-> convert(Slice(sh, 24, 32), msb),
             size |-> convert(Slice(sh, 32, 40), msb),
             link |-> convert(Slice(sh, 40, 44), msb),
             info |-> convert(Slice(sh, 44, 48), msb),
             addr_align |-> convert(Slice(sh, 48, 56), msb),
             ent_size |-> convert(Slice(sh, 56, 64), msb)])

\* A threshold test that lets the threshold itself through.
SectionTableOverflow_Above(nth) == nth > SHN_LORESERVE

\* nth >= SHN_LORESERVE as usize
SectionTableOverflow(nth) == nth >= SHN_LORESERVE

\* data[off..].chunks(siz).take(nth).map(..).collect(): entries k .. n-1.
RECURSIVE SHdrCollect(_, _, _, _, _)
SHdrCollect(rest, siz, k, n, msb) ==
    IF k >= n THEN Ok(<<>>)
    ELSE LET e == SHdrEntry(Chunk(rest, siz, k), msb) IN
         IF e.tag # "Ok" THEN Panic(e.why, <<>>)
         ELSE LET more == SHdrCollect(rest, siz, k + 1, n, msb) IN
              IF more.tag # "Ok" THEN more
              ELSE Ok(<<e.val>> \o more.val)

\* Elf64SHdr::parse
Elf64SHdr_parse(data, hdrs, msb) ==
    LET nth == hdrs.sh_num
        off == hdrs.sh_off
        siz == hdrs.sh_ent_size
    IN IF SectionTableOverflow(nth) THEN Panic("unimplemented", <<>>)
       ELSE IF off > Len(data) THEN Panic("slice index sh_off", <<>>)
       ELSE IF siz = 0 THEN Panic("chunk size must be non-zero", <<>>)
       ELSE LET rest == Slice(data, off, Len(data)) IN
            SHdrCollect(rest, siz, 0, Min(nth, NumChunks(rest, siz)), msb)

\* ------------------------------------------------------------------------
\* bytes.rs: str_from_u8
\* ------------------------------------------------------------------------

Cont(b) == b >= 128 /\ b <= 191

\* String::from_utf8 accepts exactly the well-formed UTF-8 byte sequences:
\* the length of the well-formed scalar at the head of s, 0 if there is none.
Utf8Head(s) ==
    LET n == Len(s)
        b1 == s[1]
    IN IF b1 <= 127 THEN 1
       ELSE IF b1 >= 194 /\ b1 <= 223
            THEN IF n >= 2 /\ Cont(s[2]) THEN 2 ELSE 0
       ELSE IF b1 >= 224 /\ b1 <= 239
            THEN IF /\ n >= 3
                    /\ Cont(s[2]) /\ Cont(s[3])
                    /\ (b1 = 224 => s[2] >= 160)
                    /\ (b1 = 237 => s[2] <= 159)
                 THEN 3 ELSE 0
       ELSE IF b1 >= 240 /\ b1 <= 244
            THEN IF /\ n >= 4
                    /\ Cont(s[2]) /\ Cont(s[3]) /\ Cont(s[4])
                    /\ (b1 = 240 => s[2] >= 144)
                    /\ (b1 = 244 => s[2] <= 143)
                 THEN 4 ELSE 0
       ELSE 0

RECURSIVE IsUtf8(_)
IsUtf8(s) ==
    IF s = <<>> THEN TRUE
    ELSE LET k == Utf8Head(s) IN
         IF k = 0 THEN FALSE ELSE IsUtf8(SubSeq(s, k + 1, Len(s)))

\* src.iter().position(|&c| c == b'\0').unwrap_or(src.len()), 0-based.
RECURSIVE NulPosition(_, _)
NulPosition(src, k) ==
    IF k >= Len(src) THEN Len(src)
    ELSE IF src[k + 1] = 0 THEN k
    ELSE NulPosition(src, k + 1)

\* A scan that keeps the terminating NUL in the text.
str_from_u8_ThroughNul(src) ==
    LET text == Slice(src, 0, Min(NulPosition(src, 0) + 1, Len(src)))
    IN IF IsUtf8(text) THEN Ok(text)
       ELSE Panic("unwrap from_utf8", <<>>)

\* str_from_u8.  A String is modelled by its UTF-8 bytes.
str_from_u8(src) ==
    LET nul_range_end == NulPosition(src, 0)
        text == Slice(src, 0, nul_range_end)
    IN IF IsUtf8(text) THEN Ok(text)
       ELSE Panic("unwrap from_utf8", <<>>)

\* ------------------------------------------------------------------------
\* parser.rs: the orchestrator
\* ------------------------------------------------------------------------

\* ElfParser::parse_string_tables on the section headers from index idx on
\* (0-based position in the section table).
RECURSIVE StrTablesFrom(_, _, _, _)
StrTablesFrom(data, hdrs, shs, idx) ==
    IF idx >= Len(shs) THEN Ok(<<>>)
    ELSE IF shs[idx + 1].s_type # SHT_STRTAB
         THEN StrTablesFrom(data, hdrs, shs, idx + 1)
    ELSE LET t == parse_str_table(data, shs[idx + 1], idx = hdrs.sh_str_ndx)
         IN IF t.tag # "Ok" THEN Panic(t.why, <<>>)
            ELSE LET more == StrTablesFrom(data, hdrs, shs, idx + 1) IN
                 IF more.tag # "Ok" THEN more
                 ELSE Ok(<<t.val>> \o more.val)

\* A tagging that takes the first section header for the section-name table,
\* whatever index the file header names.
parse_string_tables_TagFirst(data, hdrs, shs) ==
    StrTablesFrom(data, [hdrs EXCEPT !.sh_str_ndx = 0], shs, 0)

parse_string_tables(data, hdrs, shs) == StrTablesFrom(data, hdrs, shs, 0)

\* A resolution that starts at the byte after the offset.
get_sh_name_AfterOffset(str_table, idx) ==
    IF idx + 1 > Len(str_table.table)
    THEN Panic("slice index str_table", <<>>)
    ELSE str_from_u8(Slice(str_table.table, idx + 1, Len(str_table.table)))

\* ElfParser::get_sh_name
get_sh_name(str_table, idx) ==
    IF idx > Len(str_table.table) THEN Panic("slice index str_table", <<>>)
    ELSE str_from_u8(Slice(str_table.table, idx, Len(str_table.table)))

\* A search that settles for the first string table, whatever its tag.
FirstShStrTab_Any(tables, k) == IF k >= Len(tables) THEN 0 - 1 ELSE k

\* string_tables.iter().enumerate().filter(ShStrTab).map(idx).nth(0):
\* the 0-based index of the first table tagged ShStrTab, -1 for None.
RECURSIVE FirstShStrTab(_, _)
FirstShStrTab(tables, k) ==
    IF k >= Len(tables) THEN 0 - 1
    ELSE IF tables[k + 1].sh_type = "ShStrTab" THEN k
    ELSE FirstShStrTab(tables, k + 1)

\* section_headers.iter().for_each(get_sh_name(..).unwrap()), from the k-th
\* header on: the names printed, or the first panic.
RECURSIVE SectionNames(_, _, _)
SectionNames(shs, table, k) ==
    IF k >= Len(shs) THEN Ok(<<>>)
    ELSE LET nm == get_sh_name(table, shs[k + 1].name) IN
         IF nm.tag # "Ok" THEN Panic(nm.why, <<>>)
         ELSE LET more == SectionNames(shs, table, k + 1) IN
              IF more.tag # "Ok" THEN more
              ELSE Ok(<<nm.val>> \o more.val)

\* ------------------------------------------------------------------------
\* Input buffers
\* ------------------------------------------------------------------------

\* The bounds of the enumerated inputs.
MaxPh == 2       \* program header records in a generated table
MaxSh == 2       \* section header records in a generated table
MaxBuf == 3      \* length of a raw buffer handed to a single function
MaxTag == 3      \* |d_tag| of the small dynamic tags

RECURSIVE EncLE(_, _)
EncLE(n, w) == IF w = 0 THEN <<>> ELSE <<n % 256>> \o EncLE(n \div 256, w - 1)

\* The w-byte encoding of n >= 0 in the file's byte order.
Enc(n, w, be) == IF be THEN Reverse(EncLE(n, w)) ELSE EncLE(n, w)

\* The 8-byte two's complement encoding of a signed n.
EncI64(n, be) ==
    IF n >= 0 THEN Enc(n, 8, be)
    ELSE LET m == Enc(0 - n - 1, 8, be) IN [i \in 1..8 |-> 255 - m[i]]

RECURSIVE Pad(_, _)
Pad(n, b) == IF n <= 0 THEN <<>> ELSE <<b>> \o Pad(n - 1, b)

RECURSIVE Flatten(_)
Flatten(ss) == IF ss = <<>> THEN <<>> ELSE Head(ss) \o Flatten(Tail(ss))

RECURSIVE SeqsUpTo(_, _)
SeqsUpTo(S, n) ==
    IF n = 0 THEN {<<>>}
    ELSE LET shorter == SeqsUpTo(S, n - 1) IN
         shorter \cup {Append(q, x) : q \in shorter, x \in S}

\* The sizes of the three fixed records: the file header ends with
\* data[62..=63], a program header with sh[48..=55], a section header with
\* sh[56..=63].
EHDR_SZ == 64
PHDR_SZ == 56
SHDR_SZ == 64

\* The payload area of a generated file, at file offsets 64 .. 127:
\*   64 .. 69   00 DE AD BE EF 00   a segment image, NUL framed
\*   80 .. 111  two dynamic records: (tag 0, 0x1000), (tag 1, 7)
\*   112 .. 124 00 ".text" 00 ".data" 00
\*   125 .. 127 2E 2E 2E
PAYLOAD_OFF == EHDR_SZ
IMAGE_OFF == PAYLOAD_OFF + 1
DYN_OFF == PAYLOAD_OFF + 16
STR_OFF == DYN_OFF + 32
TABLES_OFF == STR_OFF + 16

StrBytes == <<0, 46, 116, 101, 120, 116, 0, 46, 100, 97, 116, 97, 0>>

Payload(be) ==
    <<0, 222, 173, 190, 239, 0>> \o Pad(10, 170)
    \o EncI64(0, be) \o Enc(4096, 8, be)
    \o EncI64(1, be) \o Enc(7, 8, be)
    \o StrBytes \o <<46, 46, 46>>

\* The kinds of program header records: [type, offset, filesz, memsz].
PhKinds ==
    { [t |-> PtLoad, off |-> IMAGE_OFF, fsz |-> 4, msz |-> 8],
      [t |-> PtLoad, off |-> IMAGE_OFF, fsz |-> 4, msz |-> 2],
      [t |-> PtDynamic, off |-> DYN_OFF, fsz |-> 32, msz |-> 32],
      [t |-> PtDynamic, off |-> DYN_OFF, fsz |-> 24, msz |-> 24],
      [t |-> 4, off |-> 0, fsz |-> 0, msz |-> 0] }

\* The kinds of section header records: [type, name, offset, size].
ShKinds ==
    { [t |-> 0, name |-> 0, off |-> 0, size |-> 0],
      [t |-> 1, name |-> 1, off |-> IMAGE_OFF, size |-> 4],
      [t |-> 1, name |-> 14, off |-> IMAGE_OFF, size |-> 4],
      [t |-> SHT_STRTAB, name |-> 7, off |-> STR_OFF, size |-> 13],
      [t |-> SHT_STRTAB, name |-> 1, off |-> PAYLOAD_OFF, size |-> 6],
      [t |-> SHT_STRTAB, name |-> 0, off |-> STR_OFF + 1, size |-> 12],
      [t |-> SHT_STRTAB, name |-> 0, off |-> STR_OFF, size |-> 12],
      [t |-> SHT_STRTAB, name |-> 0, off |-> STR_OFF, size |-> 0] }

MkPHdr(k, stride, be) ==
    Enc(k.t, 4, be) \o Enc(5, 4, be) \o Enc(k.off, 8, be)
    \o Enc(4096, 8, be) \o Enc(4096, 8, be) \o Enc(k.fsz, 8, be)
    \o Enc(k.msz, 8, be) \o Enc(16, 8, be) \o Pad(stride - PHDR_SZ, 170)

MkSHdr(k, stride, be) ==
    Enc(k.name, 4, be) \o Enc(k.t, 4, be) \o Enc(0, 8, be)
    \o Enc(0, 8, be) \o Enc(k.off, 8, be) \o Enc(k.size, 8, be)
    \o Enc(0, 4, be) \o Enc(0, 4, be) \o Enc(1, 8, be) \o Enc(0, 8, be)
    \o Pad(stride - SHDR_SZ, 170)

\* The records of a table are laid out with the declared entry size when it
\* holds a whole record, and back to back otherwise.
Stride(declared, recsz) == IF declared >= recsz THEN declared ELSE recsz

\* A file: the 64-byte header, the payload area, the program header table,
\* the section header table; a `len` >= 0 cuts the file short.
MkElf(p) ==
    LET phStride == Stride(p.ph_ent_size, PHDR_SZ)
        shStride == Stride(p.sh_ent_size, SHDR_SZ)
        sh_off == TABLES_OFF + Len(p.phs) * phStride
        mag == [i \in 1..4 |-> IF i = p.magmut THEN 0 ELSE ELFMAG[i]]
        file ==
            mag \o <<p.class, p.dat, p.ver, 0, 0>> \o Pad(7, 0)
            \o Enc(p.e_type, 2, p.be) \o Enc(243, 2, p.be) \o Enc(1, 4, p.be)
            \o Enc(4096, 8, p.be) \o Enc(TABLES_OFF, 8, p.be)
            \o Enc(sh_off, 8, p.be) \o Enc(0, 4, p.be) \o Enc(EHDR_SZ, 2, p.be)
            \o Enc(p.ph_ent_size, 2, p.be) \o Enc(p.ph_num, 2, p.be)
            \o Enc(p.sh_ent_size, 2, p.be) \o Enc(p.sh_num, 2, p.be)
            \o Enc(p.sh_str_ndx, 2, p.be)
            \o Payload(p.be)
            \o Flatten([i \in 1..Len(p.phs) |-> MkPHdr(p.phs[i], phStride, p.be)])
            \o Flatten([i \in 1..Len(p.shs) |-> MkSHdr(p.shs[i], shStride, p.be)])
    IN IF p.len < 0 THEN file ELSE SubSeq(file, 1, Min(p.len, Len(file)))

\* The well-formed file of the end-to-end scenario: one loadable segment
\* (file size 4, memory size 8) and the section-name string table.
Baseline ==
    [magmut |-> 0, class |-> ElfClass64, dat |-> ElfData2Lsb,
     ver |-> ElfEvCurr, be |-> FALSE, e_type |-> Executable, len |-> 0 - 1,
     phs |-> << [t |-> PtLoad, off |-> IMAGE_OFF, fsz |-> 4, msz |-> 8] >>,
     ph_ent_size |-> PHDR_SZ, ph_num |-> 1,
     shs |-> << [t |-> SHT_STRTAB, name |-> 7, off |-> STR_OFF, size |-> 13] >>,
     sh_ent_size |-> SHDR_SZ, sh_num |-> 1, sh_str_ndx |-> 0]

\* Files that vary the identification block, the file type, the byte order
\* and the length.
IdentFiles ==
    { MkElf([Baseline EXCEPT !.magmut = m, !.class = c, !.dat = d, !.ver = v,
                             !.be = b, !.e_type = t, !.len = l]) :
        m \in 0..4, c \in {1, 2, 3}, d \in {0, 1, 2}, v \in {0, 1, 2},
        b \in BOOLEAN, t \in {2, 3}, l \in {10, 17, 40, 0 - 1} }

\* Files that vary the program header table: its records, the declared
\* count and the declared entry size.  Without sections the table is the
\* last thing in the file.
PhFiles(shs) ==
    { MkElf([Baseline EXCEPT !.phs = q, !.ph_num = Len(q) + extra,
                             !.ph_ent_size = siz,
                             !.shs = shs, !.sh_num = Len(shs)]) :
        q \in SeqsUpTo(PhKinds, MaxPh), extra \in {0, 1},
        siz \in {56, 64, 40, 0} }

\* Files that vary the section header table: its records, the declared count
\* and the index of the section-name string table.
ShFiles ==
    { MkElf([Baseline EXCEPT !.shs = q, !.sh_num = Len(q) + extra,
                             !.sh_str_ndx = ndx]) :
        q \in SeqsUpTo(ShKinds, MaxSh), extra \in {0, 1}, ndx \in 0..MaxSh }

\* Files that vary the geometry the header declares for the section table.
ShGeometryFiles ==
    { MkElf([Baseline EXCEPT !.shs = q, !.sh_num = n, !.sh_ent_size = siz]) :
        q \in SeqsUpTo({Baseline.shs[1]}, MaxSh),
        n \in {SHN_LORESERVE - 1, SHN_LORESERVE, 65535},
        siz \in {64, 72, 32, 0} }

ParseFiles ==
    IdentFiles \cup PhFiles(Baseline.shs) \cup ShFiles \cup ShGeometryFiles

\* Raw buffers for the functions that take any byte slice.
RawBuffers == SeqsUpTo({0, 65}, MaxBuf)

\* Dynamic tags: the small ones of both signs and the borders of the
\* reserved ranges.
Tags ==
    ((0 - MaxTag)..MaxTag)
    \cup {DT_ENCODING - 1, DT_ENCODING, DT_ENCODING + 1}
    \cup {DT_HIOS, DT_HIOS + 1, DT_HIOS + 2, DT_LOPROC - 2, DT_LOPROC - 1,
          DT_LOPROC, DT_LOPROC + 1}

RawValues == {0, 1, 2, 7, 4096, 2147483647}

\* Buffers of three 16-byte dynamic records, little-endian: two records with
\* tags of both signs and parities, then the record (1, 7).
DynRecords ==
    { EncI64(t, FALSE) \o Enc(x, 8, FALSE) :
        t \in ((0 - 1)..2) \cup {DT_ENCODING + 1}, x \in {0, 7, 4096} }

DynBuffers ==
    { r1 \o r2 \o EncI64(1, FALSE) \o Enc(7, 8, FALSE) :
        r1 \in DynRecords, r2 \in DynRecords }

\* File sizes of a dynamic segment: whole records, and records cut inside
\* the tag and inside the value.
DynSizes == {0, 7, 8, 15, 16, 17, 24, 31, 32}

\* The byte patterns handed to convert: every pattern of 2, 4 and 8 bytes
\* over the bytes 00, 01 and FF.
CodecBytes == {0, 1, 255}

RECURSIVE Patterns(_)
Patterns(n) ==
    IF n = 0 THEN {<<>>}
    ELSE {Append(q, x) : q \in Patterns(n - 1), x \in CodecBytes}

CodecPatterns == Patterns(2) \cup Patterns(4) \cup Patterns(8)

\* Entry sizes and alignments of the section headers handed to the derived
\* predicates.
PredicateSizes == (0..MaxTag) \cup {8, 4096}

\* Raw segment types: the enumerated ones, the first values above them, and
\* the borders of the four reserved ranges.
PTypeValues ==
    (0..(7 + MaxTag))
    \cup {1610612735, 1610612736, 1610612737}
    \cup {1879048190, 1879048191, 1879048192, 1879048193}
    \cup {2147483646, 2147483647}

\* The bytes of the string tables handed to get_sh_name: NUL, 'A', and the
\* two bytes C3 A9 of a two-byte UTF-8 scalar.
NameBytes == {0, 65, 195, 169}

NameTables ==
    { [NoStringTable EXCEPT !.size = Len(t), !.table = t,
                            !.sh_type = "ShStrTab"] :
        t \in SeqsUpTo(NameBytes, MaxBuf + 2) }

\* The files of the end-to-end scenario: the well-formed file, in both byte
\* orders.
ScenarioFiles ==
    { MkElf(Baseline),
      MkElf([Baseline EXCEPT !.be = TRUE, !.dat = ElfData2Msb]) }

\* ------------------------------------------------------------------------
\* State
\* ------------------------------------------------------------------------

VARIABLES
    entry,          \* the public function this behaviour is a call of
    contents,       \* the byte buffer handed to it (`data` in the source)
    args,           \* its other arguments
    pc,             \* the next step of the call
    is_msb,         \* the outcome of `ident.data == ElfData2Msb` in convert
    headers,        \* ElfParser.headers
    program_headers,          \* what Elf64PHdr::parse returned
    section_headers,          \* ElfParser.section_headers
    string_tables,            \* ElfParser.string_tables
    header_string_table_idx,  \* ElfParser.header_string_table_idx
    names,          \* the section names ElfParser::parse printed
    outcome,        \* how the call ended: Ok, Err or Panic, and where
    ret             \* the value returned by the call

vars ==
    <<entry, contents, args, pc, is_msb, headers, program_headers,
      section_headers, string_tables, header_string_table_idx, names,
      outcome, ret>>

Running == [tag |-> "Running", why |-> ""]

NoArgs ==
    [p_type |-> 0, filesz |-> 0, memsz |-> 0, offset |-> 0, d_tag |-> 0,
     raw |-> 0, section_header |-> NoSHdr, is_header_table |-> FALSE,
     str_table |-> NoStringTable, idx |-> 0, v |-> 0, bytes |-> <<>>,
     endianness |-> ElfData2Lsb]

NoRet == [kind |-> "None"]

InitCommon ==
    /\ pc = "start"
    /\ is_msb = FALSE
    /\ headers = NoHdr
    /\ program_headers = <<>>
    /\ section_headers = <<>>
    /\ string_tables = <<>>
    /\ header_string_table_idx = 0 - 1
    /\ names = <<>>
    /\ outcome = Running
    /\ ret = NoRet

\* ElfParser::parse(data)
InitParse ==
    /\ entry = "parse"
    /\ contents \in ParseFiles
    /\ args = NoArgs

\* Elf64PHdr::parse(data, headers), on the header decoded from data
InitPHdrParse ==
    /\ entry = "phdr_parse"
    /\ contents \in PhFiles(<<>>)
    /\ args = NoArgs

\* PTypeData::parse_section(p_type, headers, filesz, memsz, offset, data),
\* with headers.ident.data = ElfData2Lsb
InitParseSection ==
    /\ entry = "parse_section"
    /\ contents \in RawBuffers
    /\ \E t \in {PtNull, PtLoad, PtDynamic}, f \in 0..(MaxBuf + 1),
          m \in 0..(MaxBuf + 1), o \in 0..(MaxBuf + 1) :
          args = [NoArgs EXCEPT !.p_type = t, !.filesz = f, !.memsz = m,
                                !.offset = o]

\* PTypeData::parse_section(PtDynamic, ..) on a buffer of dynamic records
InitParseDynamic ==
    /\ entry = "parse_section"
    /\ contents \in DynBuffers
    /\ \E f \in DynSizes, o \in {0, 16} :
          args = [NoArgs EXCEPT !.p_type = PtDynamic, !.filesz = f,
                                !.memsz = f, !.offset = o]

\* ELF64Dyn::d_un(d_tag, d_un)
InitDUn ==
    /\ entry = "d_un"
    /\ contents = <<>>
    /\ \E t \in Tags, v \in RawValues :
          args = [NoArgs EXCEPT !.d_tag = t, !.raw = v]

\* Elf64SHdr::parse_str_table(data, section_header, is_header_table)
InitParseStrTable ==
    /\ entry = "parse_str_table"
    /\ contents \in RawBuffers
    /\ \E t \in {1, SHT_STRTAB}, o \in 0..(MaxBuf + 1), z \in 0..(MaxBuf + 1),
          b \in BOOLEAN :
          args = [NoArgs EXCEPT
                    !.section_header =
                        [NoSHdr EXCEPT !.s_type = t, !.offset = o, !.size = z],
                    !.is_header_table = b]

\* ElfParser::get_sh_name(str_table, idx)
InitGetShName ==
    /\ entry = "get_sh_name"
    /\ contents = <<>>
    /\ \E t \in NameTables, i \in 0..(MaxBuf + 3) :
          args = [NoArgs EXCEPT !.str_table = t, !.idx = i]

\* The derived predicates of a section header, in both files that define
\* them.
InitPredicates ==
    /\ entry = "predicates"
    /\ contents = <<>>
    /\ \E e \in PredicateSizes, a \in PredicateSizes :
          args = [NoArgs EXCEPT
                    !.section_header =
                        [NoSHdr EXCEPT !.ent_size = e, !.addr_align = a]]

\* convert(bytes, endianness), for u16, u32 and u64
InitConvert ==
    /\ entry = "convert"
    /\ contents = <<>>
    /\ \E b \in CodecPatterns, e \in {ElfData2Lsb, ElfData2Msb} :
          args = [NoArgs EXCEPT !.bytes = b, !.endianness = e]

\* PType::try_from(v)
InitTryFrom ==
    /\ entry = "try_from"
    /\ contents = <<>>
    /\ \E x \in PTypeValues : args = [NoArgs EXCEPT !.v = x]

\* A client that calls ElfParser::parse(data), then Elf64PHdr::parse on the
\* same buffer, then get_sh_name on the section-name table at offset idx.
InitScenario ==
    /\ entry = "scenario"
    /\ contents \in ScenarioFiles
    /\ \E i \in {0, 1, 7, Len(StrBytes) + 1} : args = [NoArgs EXCEPT !.idx = i]

Init ==
    /\ InitCommon
    /\ \/ InitParse
       \/ InitPHdrParse
       \/ InitParseSection
       \/ InitParseDynamic
       \/ InitDUn
       \/ InitParseStrTable
       \/ InitGetShName
       \/ InitScenario
       \/ InitTryFrom
       \/ InitPredicates
       \/ InitConvert

\* A panic unwinds the call: nothing is returned.
Abort(why) ==
    /\ pc' = "done"
    /\ outcome' = [tag |-> "Panic", why |-> why]

\* ------------------------------------------------------------------------
\* Steps of ElfParser::parse and of a caller of Elf64PHdr::parse
\* ------------------------------------------------------------------------

\* parser.rs:47, Elf64Hdr::parse(&data)?  The header is decoded before it is
\* validated.  With an invalid data-encoding byte the comparison in convert
\* may go either way.
HdrParse ==
    /\ entry \in {"parse", "phdr_parse", "scenario"}
    /\ pc = "start"
    /\ \E msb \in (IF Len(contents) >= IDENT_SZ
                   THEN EnumEq(contents[6], ValidData, ElfData2Msb)
                   ELSE {FALSE}) :
          LET r == Elf64Hdr_parse(contents, msb) IN
          /\ is_msb' = msb
          /\ IF r.tag = "Ok"
             THEN /\ headers' = r.val
                  /\ pc' = "validate"
                  /\ UNCHANGED outcome
             ELSE /\ Abort(r.why)
                  /\ UNCHANGED headers
    /\ UNCHANGED <<entry, contents, args, program_headers, section_headers,
                   string_tables, header_string_table_idx, names, ret>>

\* parser.rs:47, .validate()
Validate ==
    /\ pc = "validate"
    /\ \E eqClass \in EnumEq(headers.ident.class, ValidClass, ElfClass64),
          eqData \in EnumEq(headers.ident.data, ValidData, ElfData2Lsb),
          eqVersion \in EnumEq(headers.ident.version, ValidVersion, ElfEvCurr) :
          LET r == Elf64Hdr_validate(headers, eqClass, eqData, eqVersion) IN
          IF r.tag = "Ok"
          THEN /\ pc' = IF entry = "phdr_parse" THEN "segments"
                       ELSE "sections"
               /\ UNCHANGED outcome
          ELSE Abort(r.why)
    /\ UNCHANGED <<entry, contents, args, is_msb, headers, program_headers,
                   section_headers, string_tables, header_string_table_idx,
                   names, ret>>

\* Elf64PHdr::parse(&data, &headers), called with the validated header.
\* ElfParser::parse does not call it.
PHdrParse ==
    /\ entry \in {"phdr_parse", "scenario"}
    /\ pc = "segments"
    /\ LET r == Elf64PHdr_parse(contents, headers, is_msb) IN
       IF r.tag = "Ok"
       THEN /\ program_headers' = r.val
            /\ pc' = IF entry = "scenario" THEN "resolve" ELSE "done"
            /\ outcome' = IF entry = "scenario" THEN outcome
                          ELSE [tag |-> "Ok", why |-> ""]
       ELSE /\ Abort(r.why)
            /\ UNCHANGED program_headers
    /\ UNCHANGED <<entry, contents, args, is_msb, headers, section_headers,
                   string_tables, header_string_table_idx, names, ret>>

\* parser.rs:48, Elf64SHdr::parse(&data, &headers)?
SHdrParse ==
    /\ entry \in {"parse", "scenario"}
    /\ pc = "sections"
    /\ LET r == Elf64SHdr_parse(contents, headers, is_msb) IN
       IF r.tag = "Ok"
       THEN /\ section_headers' = r.val
            /\ pc' = "string_tables"
            /\ UNCHANGED outcome
       ELSE /\ Abort(r.why)
            /\ UNCHANGED section_headers
    /\ UNCHANGED <<entry, contents, args, is_msb, headers, program_headers,
                   string_tables, header_string_table_idx, names, ret>>

\* parser.rs:50-51, ElfParser::parse_string_tables(..).unwrap()
ParseStringTables ==
    /\ entry \in {"parse", "scenario"}
    /\ pc = "string_tables"
    /\ LET r == parse_string_tables(contents, headers, section_headers) IN
       IF r.tag = "Ok"
       THEN /\ string_tables' = r.val
            /\ pc' = "index"
            /\ UNCHANGED outcome
       ELSE /\ Abort(r.why)
            /\ UNCHANGED string_tables
    /\ UNCHANGED <<entry, contents, args, is_msb, headers, program_headers,
                   section_headers, header_string_table_idx, names, ret>>

\* parser.rs:52-58, the index of the first table tagged ShStrTab, unwrapped
FindHeaderStringTable ==
    /\ entry \in {"parse", "scenario"}
    /\ pc = "index"
    /\ LET i == FirstShStrTab(string_tables, 0) IN
       IF i >= 0
       THEN /\ header_string_table_idx' = i
            /\ pc' = "names"
            /\ UNCHANGED outcome
       ELSE /\ Abort("unwrap nth(0): None")
            /\ UNCHANGED header_string_table_idx
    /\ UNCHANGED <<entry, contents, args, is_msb, headers, program_headers,
                   section_headers, string_tables, names, ret>>

\* The struct ElfParser (parser.rs:13-18) that parse returns.
ElfParser(h, shs, idx, tables) ==
    [kind |-> "ElfParser", headers |-> h, section_headers |-> shs,
     header_string_table_idx |-> idx, string_tables |-> tables]

\* parser.rs:60-73, every section name is resolved and printed, then the
\* result is returned.
Return ==
    /\ entry \in {"parse", "scenario"}
    /\ pc = "names"
    /\ LET r == SectionNames(section_headers,
                             string_tables[header_string_table_idx + 1], 0)
       IN IF r.tag = "Ok"
          THEN /\ names' = r.val
               /\ ret' = ElfParser(headers, section_headers,
                                   header_string_table_idx, string_tables)
               /\ pc' = IF entry = "scenario" THEN "segments" ELSE "done"
               /\ outcome' = IF entry = "scenario" THEN outcome
                             ELSE [tag |-> "Ok", why |-> ""]
          ELSE /\ Abort(r.why)
               /\ UNCHANGED <<names, ret>>
    /\ UNCHANGED <<entry, contents, args, is_msb, headers, program_headers,
                   section_headers, string_tables, header_string_table_idx>>

\* ------------------------------------------------------------------------
\* Calls of the single functions
\* ------------------------------------------------------------------------

Finish(r) ==
    /\ pc' = "done"
    /\ outcome' = [tag |-> r.tag, why |-> r.why]
    /\ ret' = IF r.tag = "Ok" THEN r.val ELSE NoRet
    /\ UNCHANGED <<entry, contents, args, is_msb, headers, program_headers,
                   section_headers, string_tables, header_string_table_idx,
                   names>>

CallParseSection ==
    /\ entry = "parse_section"
    /\ pc = "start"
    /\ Finish(parse_section(args.p_type, args.filesz, args.memsz,
                            args.offset, contents, is_msb))

CallDUn ==
    /\ entry = "d_un"
    /\ pc = "start"
    /\ Finish(Ok(d_un(args.d_tag, args.raw)))

CallParseStrTable ==
    /\ entry = "parse_str_table"
    /\ pc = "start"
    /\ Finish(parse_str_table(contents, args.section_header,
                              args.is_header_table))

\* get_sh_name called on its own, or by the client on the section-name
\* table of the Parse Result.
CallGetShName ==
    \/ /\ entry = "get_sh_name"
       /\ pc = "start"
       /\ Finish(get_sh_name(args.str_table, args.idx))
    \/ /\ entry = "scenario"
       /\ pc = "resolve"
       /\ Finish(get_sh_name(ret.string_tables[ret.header_string_table_idx + 1],
                             args.idx))

CallPredicates ==
    /\ entry = "predicates"
    /\ pc = "start"
    /\ Finish(Ok([kind |-> "Predicates",
                  has_table |-> has_table(args.section_header),
                  has_align_constraints |->
                      has_align_constraints(args.section_header),
                  main_has_table |-> main_has_table(args.section_header),
                  main_has_align_constraints |->
                      main_has_align_constraints(args.section_header)]))

CallConvert ==
    /\ entry = "convert"
    /\ pc = "start"
    /\ Finish(Ok([kind |-> "Value",
                  limbs |-> convert_wide(args.bytes,
                                         args.endianness = ElfData2Msb)]))

CallTryFrom ==
    /\ entry = "try_from"
    /\ pc = "start"
    /\ Finish(PType_try_from(args.v))

Next ==
    \/ HdrParse
    \/ Validate
    \/ PHdrParse
    \/ SHdrParse
    \/ ParseStringTables
    \/ FindHeaderStringTable
    \/ Return
    \/ CallParseSection
    \/ CallDUn
    \/ CallParseStrTable
    \/ CallGetShName
    \/ CallTryFrom
    \/ CallPredicates
    \/ CallConvert

Spec == Init /\ [][Next]_vars

\* ------------------------------------------------------------------------
\* Properties
\* ------------------------------------------------------------------------

ParseDone == entry = "parse" /\ pc = "done"

\* C1: every call of ElfParser::parse ends by returning a Parse Result or a
\* typed error value; no input makes it panic.
C1_ParseNeverPanics ==
    ParseDone => outcome.tag \in {"Ok", "Err"}

\* The image of a loadable segment: length memsz, the first filesz bytes are
\* the source bytes at [offset, offset + filesz), the others are zero.
IsLoadImage(image, data, offset, filesz, memsz) ==
    /\ Len(image) = memsz
    /\ \A i \in 1..filesz : image[i] = data[offset + i]
    /\ \A i \in (filesz + 1)..memsz : image[i] = 0

\* C2: for a PtLoad segment with filesz <= memsz whose file extent lies in
\* the buffer, parse_section returns an image of length memsz whose first
\* filesz bytes are the source bytes and whose other bytes are zero; so is
\* the payload of every loadable program header Elf64PHdr::parse returns.
C2_LoadableImage ==
    /\ ( /\ entry = "parse_section"
         /\ pc = "done"
         /\ args.p_type = PtLoad
         /\ args.filesz <= args.memsz
         /\ args.offset + args.filesz <= Len(contents) )
       => /\ outcome.tag = "Ok"
          /\ ret.kind = "PtLoadData"
          /\ IsLoadImage(ret.bytes, contents, args.offset, args.filesz,
                         args.memsz)
    /\ (entry = "phdr_parse" /\ pc = "done" /\ outcome.tag = "Ok")
       => \A i \in 1..Len(program_headers) :
             LET ph == program_headers[i] IN
             ph.p_type = PtLoad
             => /\ ph.section.kind = "PtLoadData"
                /\ IsLoadImage(ph.section.bytes, contents, ph.offset,
                               ph.filesz, ph.memsz)

\* A loadable segment was materialized with a copied non-zero byte and a
\* zero tail.
C2_Witness ==
    /\ entry = "parse_section"
    /\ pc = "done"
    /\ outcome.tag = "Ok"
    /\ args.p_type = PtLoad
    /\ args.filesz >= 1
    /\ args.filesz < args.memsz
    /\ args.offset >= 1
    /\ ret.bytes[1] = 65

\* The k-th record (0-based) of the program header table as the header
\* declares it, among those Elf64PHdr::parse visits.
PhRecord(k) ==
    Chunk(Slice(contents, headers.ph_off, Len(contents)),
          headers.ph_ent_size, k)

PhVisited ==
    IF headers.ph_off > Len(contents) \/ headers.ph_ent_size = 0 THEN 0
    ELSE Min(headers.ph_num,
             NumChunks(Slice(contents, headers.ph_off, Len(contents)),
                       headers.ph_ent_size))

\* The record holds a loadable entry whose file size exceeds its memory size.
OversizedLoad(rec) ==
    /\ Len(rec) >= 48
    /\ convert(Slice(rec, 0, 4), is_msb) = PtLoad
    /\ convert(Slice(rec, 32, 40), is_msb) > convert(Slice(rec, 40, 48), is_msb)

\* C3: every loadable program header Elf64PHdr::parse returns has
\* filesz <= memsz, and a table with a loadable record whose filesz exceeds
\* its memsz makes the parse fail: nothing is returned.
C3_LoadableFileszWithinMemsz ==
    (entry = "phdr_parse" /\ pc = "done")
    => /\ outcome.tag = "Ok"
          => \A i \in 1..Len(program_headers) :
                program_headers[i].p_type = PtLoad
                => program_headers[i].filesz <= program_headers[i].memsz
       /\ (\E k \in 0..(PhVisited - 1) : OversizedLoad(PhRecord(k)))
          => /\ outcome.tag = "Panic"
             /\ program_headers = <<>>

\* A table with an oversized loadable record was parsed, and the parse
\* failed at the file size check.
C3_Witness ==
    /\ entry = "phdr_parse"
    /\ pc = "done"
    /\ \E k \in 0..(PhVisited - 1) : OversizedLoad(PhRecord(k))
    /\ outcome = [tag |-> "Panic", why |-> "panic!() filesz > memsz"]

\* C4: d_un yields a pointer carrying the raw value for an even tag and a
\* scalar carrying the raw value for an odd tag, for tags of both signs and
\* in the reserved ranges.
C4_TagParity ==
    (entry = "d_un" /\ pc = "done")
    => /\ outcome.tag = "Ok"
       /\ ret.v = args.raw
       /\ (args.d_tag % 2 = 0) => ret.kind = "DPtr"
       /\ (args.d_tag % 2 = 1) => ret.kind = "DVal"

\* A negative odd tag was classified as a scalar.
C4_Witness ==
    /\ entry = "d_un"
    /\ pc = "done"
    /\ args.d_tag < 0
    /\ args.d_tag % 2 = 1
    /\ args.raw = 4096
    /\ ret = DVal(4096)

\* C5: when Elf64PHdr::parse or Elf64SHdr::parse returns a sequence, its
\* length is the count the file header declares.
C5_DeclaredCount ==
    /\ (entry = "phdr_parse" /\ pc = "done" /\ outcome.tag = "Ok")
       => Len(program_headers) = headers.ph_num
    /\ (entry = "parse" /\ pc \in {"string_tables", "index", "names"})
       => Len(section_headers) = headers.sh_num

\* The places where Elf64Hdr::validate fails.
IdentAsserts == {"assert mag", "assert class", "assert data", "assert version"}

\* The places where the decoding of the header fields at byte 16 and later
\* fails.
FieldDecodeFailures ==
    {"slice index e_type", "unwrap e_type", "slice index header field"}

\* Elf64SHdr::parse has been called by ElfParser::parse.
SectionsParsed ==
    /\ entry = "parse"
    /\ pc \notin {"start", "validate", "sections"}
    /\ outcome.why \notin IdentAsserts \cup FieldDecodeFailures
    /\ outcome.why # "unwrap parse_ident: InvalidLength"

\* C6: a declared section count at or above SHN_LORESERVE makes the section
\* header parser fail as unimplemented with no section headers returned, and
\* a count below it never fails that way.
C6_SectionCountThreshold ==
    /\ (SectionsParsed /\ headers.sh_num >= SHN_LORESERVE)
       => /\ pc = "done"
          /\ outcome = [tag |-> "Panic", why |-> "unimplemented"]
          /\ section_headers = <<>>
    /\ (entry = "parse" /\ outcome.why = "unimplemented")
       => headers.sh_num >= SHN_LORESERVE

\* The section header parser refused a count equal to the threshold.
C6_Witness ==
    /\ SectionsParsed
    /\ headers.sh_num = SHN_LORESERVE
    /\ outcome = [tag |-> "Panic", why |-> "unimplemented"]

\* The four identification facts, read from the first 16 bytes.
IdentFacts(data) ==
    /\ Slice(data, 0, 4) = ELFMAG
    /\ data[5] = ElfClass64
    /\ data[6] = ElfData2Lsb
    /\ data[7] = ElfEvCurr

\* The assertion of the first fact, in the order magic, class, data-encoding,
\* version, that the first 16 bytes violate.
FirstViolatedFact(data) ==
    IF Slice(data, 0, 4) # ELFMAG THEN "assert mag"
    ELSE IF data[5] # ElfClass64 THEN "assert class"
    ELSE IF data[6] # ElfData2Lsb THEN "assert data"
    ELSE "assert version"

\* C7: a parse succeeds only if the four identification facts hold, and the
\* first violated fact, in the order magic, class, data-encoding, version,
\* determines the failure.
C7_IdentificationDecides ==
    (ParseDone /\ Len(contents) >= IDENT_SZ)
    => /\ outcome.tag = "Ok" => IdentFacts(contents)
       /\ ~IdentFacts(contents)
          => outcome = [tag |-> "Panic", why |-> FirstViolatedFact(contents)]

\* C8: no header field at byte 16 or later is decoded, and no failure of
\* that decoding happens, unless the identification facts hold.
C8_ValidatedBeforeDecode ==
    (entry = "parse" /\ Len(contents) >= IDENT_SZ /\ ~IdentFacts(contents))
    => /\ headers = NoHdr
       /\ outcome.why \notin FieldDecodeFailures

\* C9: a returned Parse Result holds the program headers that the program
\* header stage yields for the file, and a failure of that stage fails the
\* parse.
C9_ProgramHeaderStage ==
    (ParseDone /\ outcome.tag = "Ok")
    => /\ Elf64PHdr_parse(contents, headers, is_msb).tag = "Ok"
       /\ "program_headers" \in DOMAIN ret
       /\ ret.program_headers = Elf64PHdr_parse(contents, headers, is_msb).val

\* A table is the copy of the byte range its offset and size name, the range
\* is not empty and its first and last bytes are NUL.
IsFramedCopy(t, data) ==
    /\ t.size >= 1
    /\ t.offset + t.size <= Len(data)
    /\ Len(t.table) = t.size
    /\ t.table = Slice(data, t.offset, t.offset + t.size)
    /\ data[t.offset + 1] = 0
    /\ data[t.offset + t.size] = 0

\* C10: parse_str_table returns a table only for a non-empty byte range
\* whose first and last bytes are NUL, and the returned buffer is that byte
\* range; an empty range and a range with a first or last byte that is not
\* NUL are rejected.  So is every table ElfParser::parse keeps.
C10_StringTableFraming ==
    /\ (entry = "parse_str_table" /\ pc = "done")
       => /\ outcome.tag = "Ok"
             => /\ ret.offset = args.section_header.offset
                /\ ret.size = args.section_header.size
                /\ IsFramedCopy(ret, contents)
          /\ LET off == args.section_header.offset
                 siz == args.section_header.size
             IN (\/ siz = 0
                 \/ off + siz > Len(contents)
                 \/ contents[off + 1] # 0
                 \/ contents[off + siz] # 0)
                => outcome.tag = "Panic" /\ ret = NoRet
    /\ entry = "parse"
       => \A i \in 1..Len(string_tables) :
             IsFramedCopy(string_tables[i], contents)

\* A table of three bytes, NUL framed around a name byte, was returned.
C10_Witness ==
    /\ entry = "parse_str_table"
    /\ pc = "done"
    /\ outcome.tag = "Ok"
    /\ args.section_header.offset = 0
    /\ ret.table = <<0, 65, 0>>

\* The 1-based positions of the string table sections in the section table,
\* and the rank of one of them among them.
StrTabSections ==
    {i \in 1..Len(section_headers) : section_headers[i].s_type = SHT_STRTAB}

StrTabRank(i) == Cardinality({j \in StrTabSections : j <= i})

StringTablesReturned ==
    /\ entry = "parse"
    /\ \/ pc \in {"index", "names"}
       \/ pc = "done" /\ outcome.tag = "Ok"

\* C11: parse_string_tables returns exactly one string table per section
\* header of type SHT_STRTAB, in section-table order, and none for any other
\* section type; a table is tagged ShStrTab if and only if the index of its
\* section header in the section table equals sh_str_ndx, StrTab otherwise.
C11_StringTablesPerSection ==
    StringTablesReturned =>
        /\ Len(string_tables) = Cardinality(StrTabSections)
        /\ \A i \in StrTabSections :
              LET t == string_tables[StrTabRank(i)]
                  sh == section_headers[i]
              IN /\ t.offset = sh.offset
                 /\ t.size = sh.size
                 /\ t.table = SubSeq(contents, sh.offset + 1,
                                     sh.offset + sh.size)
                 /\ t.sh_type \in {"ShStrTab", "StrTab"}
                 /\ t.sh_type = "ShStrTab" <=> i - 1 = headers.sh_str_ndx

\* Two string tables were returned for a table of two sections, the second
\* one named by sh_str_ndx.
C11_Witness ==
    /\ StringTablesReturned
    /\ Len(string_tables) = 2
    /\ string_tables[1].sh_type = "StrTab"
    /\ string_tables[2].sh_type = "ShStrTab"
    /\ string_tables[1].offset # string_tables[2].offset

\* One table was returned for a table of two sections: the first section is
\* no string table and is skipped.
C11_SkipsOtherSections ==
    /\ StringTablesReturned
    /\ Len(section_headers) = 2
    /\ section_headers[1].s_type # SHT_STRTAB
    /\ Len(string_tables) = 1

\* A string table that parse_str_table accepts: not empty, NUL first and last.
IsFramed(table) ==
    Len(table) > 0 /\ table[1] = 0 /\ table[Len(table)] = 0

\* span is the text of table at offset idx: the bytes from idx up to, and not
\* including, the first NUL at or after idx, or up to the end of the buffer.
IsNameSpan(span, table, idx) ==
    \E e \in idx..Len(table) :
        /\ e = Len(table) \/ table[e + 1] = 0
        /\ \A j \in idx..(e - 1) : table[j + 1] # 0
        /\ span = SubSeq(table, idx + 1, e)

NameSpan(table, idx) ==
    CHOOSE span \in {SubSeq(table, idx + 1, e) : e \in idx..Len(table)} :
        IsNameSpan(span, table, idx)

GetShNameDone ==
    /\ entry = "get_sh_name"
    /\ pc = "done"
    /\ args.idx < Len(args.str_table.table)

\* C12 (as stated): for every valid string table and every offset inside its
\* buffer, get_sh_name returns exactly the bytes from the offset up to, and
\* not including, the first NUL at or after it (or up to the end of the
\* buffer), as text.
C12_NameResolution ==
    (GetShNameDone /\ IsFramed(args.str_table.table)) =>
        /\ outcome.tag = "Ok"
        /\ IsNameSpan(ret, args.str_table.table, args.idx)

\* C12 (amended): for every string table and every offset inside its
\* buffer, get_sh_name returns exactly that span when the span is well-formed
\* UTF-8, the byte at the offset included and nothing from the NUL on; when
\* the span is not well-formed UTF-8 the call panics and returns nothing.
C12_NameResolutionOfText ==
    GetShNameDone =>
        LET span == NameSpan(args.str_table.table, args.idx) IN
        IF IsUtf8(span)
        THEN /\ outcome.tag = "Ok"
             /\ ret = span
             /\ IsNameSpan(ret, args.str_table.table, args.idx)
             /\ \A k \in 1..Len(ret) : ret[k] # 0
        ELSE /\ outcome = [tag |-> "Panic", why |-> "unwrap from_utf8"]
             /\ ret = NoRet

\* A name was resolved at an offset past the first byte of a framed table,
\* with bytes before the offset and after the terminating NUL left out.
C12_Witness ==
    /\ GetShNameDone
    /\ IsFramed(args.str_table.table)
    /\ outcome.tag = "Ok"
    /\ args.idx = 1
    /\ Len(ret) >= 1
    /\ Len(args.str_table.table) > args.idx + Len(ret) + 1

\* The client has made its three calls on the little-endian scenario file
\* and resolved the name at offset 1.
ScenarioDone ==
    /\ entry = "scenario"
    /\ pc = "done"
    /\ contents = MkElf(Baseline)
    /\ args.idx = 1

\* Parsing succeeded, the section-name table holds NUL ".text" NUL ".data"
\* NUL, and the image of the one loadable segment is DE AD BE EF 00 00 00 00.
ScenarioParsed ==
    /\ outcome.tag = "Ok"
    /\ Len(string_tables) = 1
    /\ string_tables[header_string_table_idx + 1].sh_type = "ShStrTab"
    /\ string_tables[header_string_table_idx + 1].table = StrBytes
    /\ Len(program_headers) = 1
    /\ program_headers[1].p_type = PtLoad
    /\ program_headers[1].filesz = 4
    /\ program_headers[1].memsz = 8
    /\ program_headers[1].section =
           PtLoadData(<<222, 173, 190, 239, 0, 0, 0, 0>>)

C14_SegmentTypeTotal ==
    (entry = "try_from" /\ pc = "done") =>
        /\ outcome.tag = "Ok"
        /\ args.v < 8 => ret = args.v
        /\ args.v >= 8 => ret \in {PtLoos, PtHios, PtLoProc, PtHiProc}

PredicatesDone == entry = "predicates" /\ pc = "done"

\* C15: for every section header, has_table is true if and only if the
\* entry size is not 0 and has_align_constraints is true if and only if the
\* alignment is neither 0 nor 1, for every definition of these predicates in
\* the repository (elf/shdr.rs and main.rs).
C15_DerivedPredicates ==
    PredicatesDone =>
        LET sh == args.section_header IN
        /\ ret.has_table <=> sh.ent_size # 0
        /\ ret.has_align_constraints <=> sh.addr_align \notin {0, 1}
        /\ ret.main_has_table <=> sh.ent_size # 0
        /\ ret.main_has_align_constraints <=> sh.addr_align \notin {0, 1}

\* The i-th base-256 digit (i = 0 is the least significant) of a value kept
\* as 16-bit limbs.
Digit(x, i) ==
    (x[(i \div 2) + 1] \div (IF i % 2 = 1 THEN 256 ELSE 1)) % 256

\* The value fits the 31 bits of the integers the rest of the model uses.
Fits31(x) ==
    /\ \A k \in 3..Len(x) : x[k] = 0
    /\ Len(x) >= 2 => x[2] < 32768

ToInt(x) == x[1] + (IF Len(x) >= 2 THEN 65536 * x[2] ELSE 0)

RECURSIVE Pow256(_)
Pow256(i) == IF i = 0 THEN 1 ELSE 256 * Pow256(i - 1)

\* The sum over i = lo .. N-1 of b[i] * 256^e(i), with e(i) = i for the
\* little-endian reading and N-1-i for the big-endian one (b is 0-based);
\* zero bytes add nothing.
RECURSIVE WeightedSum(_, _, _)
WeightedSum(b, msb, lo) ==
    IF lo >= Len(b) THEN 0
    ELSE (IF b[lo + 1] = 0 THEN 0
          ELSE b[lo + 1] * Pow256(IF msb THEN Len(b) - 1 - lo ELSE lo))
         + WeightedSum(b, msb, lo + 1)

IsSymmetric(b) == \A i \in 1..Len(b) : b[i] = b[Len(b) + 1 - i]

ConvertDone == entry = "convert" /\ pc = "done"

\* C16: for N in {2,4,8} and every N-byte pattern b, convert(b,
\* little-endian) is the sum of b[i]*256^i and convert(b, big-endian) is the
\* sum of b[i]*256^(N-1-i): the i-th base-256 digit of the result is b[i],
\* respectively b[N-1-i]; the encoding flag alone makes the choice, and the
\* two results are equal only when the pattern is symmetric.
C16_EndianCodec ==
    ConvertDone =>
        LET b == args.bytes
            N == Len(b)
            msb == args.endianness = ElfData2Msb
            v == ret.limbs
        IN /\ N \in {2, 4, 8}
           /\ outcome.tag = "Ok"
           /\ Len(v) = N \div 2
           /\ \A k \in 1..Len(v) : v[k] \in 0..65535
           /\ \A i \in 0..(N - 1) :
                 Digit(v, i) = IF msb THEN b[N - i] ELSE b[i + 1]
           /\ Fits31(v) =>
                 /\ ToInt(v) = WeightedSum(b, msb, 0)
                 /\ convert(b, msb) = WeightedSum(b, msb, 0)
           /\ v = convert_wide(b, ~msb) <=> IsSymmetric(b)

\* An asymmetric 8-byte pattern whose first byte is FF was decoded as
\* big-endian: the value needs all 64 bits.
C16_Witness ==
    /\ ConvertDone
    /\ Len(args.bytes) = 8
    /\ args.endianness = ElfData2Msb
    /\ args.bytes[1] = 255
    /\ args.bytes[8] = 1
    /\ ret.limbs[4] >= 65280
    /\ ret.limbs # convert_wide(args.bytes, FALSE)

\* dyn is the decoding of the F/16 whole records of the extent
\* [offset, offset + filesz) of data: entry k has its tag in bytes 0-7 and
\* its value in bytes 8-15 of the k-th record.
IsDynTable(dyn, data, offset, filesz, msb) ==
    /\ Len(dyn) = filesz \div 16
    /\ \A k \in 1..Len(dyn) :
          LET rec == SubSeq(data, offset + 16 * (k - 1) + 1, offset + 16 * k)
          IN /\ EncI64(dyn[k].d_tag, msb) = SubSeq(rec, 1, 8)
             /\ Enc(dyn[k].d_un.v, 8, msb) = SubSeq(rec, 9, 16)

DynamicDone ==
    /\ entry = "parse_section"
    /\ pc = "done"
    /\ args.p_type = PtDynamic
    /\ args.offset + args.filesz <= Len(contents)

\* C17: for a PtDynamic segment whose file extent [offset, offset + F) lies
\* in the buffer, parse_section returns exactly F/16 entries in file order,
\* the k-th with its tag decoded from bytes 0-7 and its value from bytes 8-15
\* of the k-th 16-byte record; when F is no multiple of 16 the trailing
\* partial record makes the parse fail, and nothing is returned.  So it is
\* for the dynamic segments of the headers Elf64PHdr::parse returns.
C17_DynamicTable ==
    /\ DynamicDone =>
          IF args.filesz % 16 = 0
          THEN /\ outcome.tag = "Ok"
               /\ ret.kind = "PtDynamicData"
               /\ IsDynTable(ret.dyn, contents, args.offset, args.filesz,
                             is_msb)
          ELSE /\ outcome.tag = "Panic"
               /\ outcome.why \in {"slice index d_tag", "slice index d_un"}
               /\ ret = NoRet
    /\ (entry = "phdr_parse" /\ pc = "done" /\ outcome.tag = "Ok")
       => \A i \in 1..Len(program_headers) :
             LET ph == program_headers[i] IN
             ph.p_type = PtDynamic
             => /\ ph.filesz % 16 = 0
                /\ ph.section.kind = "PtDynamicData"
                /\ IsDynTable(ph.section.dyn, contents, ph.offset, ph.filesz,
                              is_msb)

\* Two records were decoded from the second record of the buffer on, the
\* first of them with a negative tag.
C17_Witness ==
    /\ DynamicDone
    /\ outcome.tag = "Ok"
    /\ args.offset = 16
    /\ Len(ret.dyn) = 2
    /\ ret.dyn[1].d_tag < 0
    /\ ret.dyn[1].d_un.v = 4096
    /\ ret.dyn[2].d_tag = 1

\* A segment of one record and a half failed on its trailing partial record.
C17_PartialRecordFails ==
    /\ DynamicDone
    /\ args.filesz = 24
    /\ outcome = [tag |-> "Panic", why |-> "slice index d_un"]

ParseReturned == ParseDone /\ outcome.tag = "Ok"

\* C18: in every Parse Result returned by ElfParser::parse,
\* header_string_table_idx is a valid index into string_tables, the table at
\* that index is tagged ShStrTab and no other table is; so a result is
\* returned only if the section at index sh_str_ndx exists and has type
\* SHT_STRTAB.
C18_HeaderStringTableIndex ==
    ParseReturned =>
        /\ ret.kind = "ElfParser"
        /\ ret.header_string_table_idx \in 0..(Len(ret.string_tables) - 1)
        /\ \A k \in 1..Len(ret.string_tables) :
              ret.string_tables[k].sh_type = "ShStrTab"
              <=> k = ret.header_string_table_idx + 1
        /\ ret.headers.sh_str_ndx < Len(ret.section_headers)
        /\ ret.section_headers[ret.headers.sh_str_ndx + 1].s_type = SHT_STRTAB
        /\ LET sh == ret.section_headers[ret.headers.sh_str_ndx + 1]
               t == ret.string_tables[ret.header_string_table_idx + 1]
           IN t.offset = sh.offset /\ t.size = sh.size

\* A Parse Result with two string tables, the second of them the
\* section-name table.
C18_Witness ==
    /\ ParseReturned
    /\ Len(ret.string_tables) = 2
    /\ ret.header_string_table_idx = 1
    /\ ret.headers.sh_str_ndx = 1

\* A file whose sh_str_ndx names no string table section yields no result:
\* the parse ends in the unwrap of parser.rs:58.
C18_NoNameTableNoResult ==
    /\ ParseDone
    /\ outcome = [tag |-> "Panic", why |-> "unwrap nth(0): None"]
    /\ Len(string_tables) >= 1
    /\ ret = NoRet

====
